---- MODULE Spec2Model ----
(***************************************************************************)
(* Model of the default access-control plugin of ozp-backend               *)
(* (plugins/default_access_control/main.py): the token registry built at   *)
(* construction, the tokenizer _split_tokens, validate_marking, has_access *)
(* and future_has_access.                                                  *)
(*                                                                         *)
(* Python values are modelled as follows.                                  *)
(*   str    a sequence of one-character strings, <<"T","S">> for 'TS'      *)
(*   None   the record None                                                *)
(*   an argument that is a str or None: Str(s) or None                     *)
(*   dict   a function whose DOMAIN is the set of keys present             *)
(*   a call's outcome: Return(v) or Raise(exception class name)            *)
(***************************************************************************)
EXTENDS Integers, Sequences, FiniteSets, TLC

VARIABLES
    engine,     \* "new" before __init__ ran, "ready" after it returned, "raised" if it raised
    defs,       \* the list of token definitions __init__ converts (tokens_list)
    tokens,     \* self.tokens, the registry
    req,        \* per thread: the arguments of its call, [profile, marking]
    fr,         \* per thread: the call frame [pc, op, ..., ret]
    auth        \* the profile store, the clock and the last authorization_update call

vars == <<engine, defs, tokens, req, fr, auth>>

-----------------------------------------------------------------------------
(* Python values *)

None == [t |-> "None"]

Str(s) == [t |-> "str", s |-> s]

Return(v) == [k |-> "return", v |-> v]

Raise(e) == [k |-> "raise", exc |-> e]

NoCall == [k |-> "none"]

\* No profile stored, no authorization_update called.
NoStore == [db |-> <<>>, now |-> 0, call |-> NoCall]

\* bool(x) of a str-or-None argument: `not marking` is true of None and of ''.
Truthy(x) == x.t = "str" /\ x.s # <<>>

LowerChars == <<"a","b","c","d","e","f","g","h","i","j","k","l","m",
                "n","o","p","q","r","s","t","u","v","w","x","y","z">>

UpperChars == <<"A","B","C","D","E","F","G","H","I","J","K","L","M",
                "N","O","P","Q","R","S","T","U","V","W","X","Y","Z">>

\* str.upper() of one ASCII character: lower-case letters map to upper case,
\* every other character (upper-case letters, '/', ' ') stays.
UpperMap ==
    [c \in {LowerChars[i] : i \in 1..Len(LowerChars)} |->
        UpperChars[CHOOSE i \in 1..Len(LowerChars) : LowerChars[i] = c]]

UpperChar(c) == IF c \in DOMAIN UpperMap THEN UpperMap[c] ELSE c

\* str.upper()
upper(s) == [i \in 1..Len(s) |-> UpperChar(s[i])]

SetMin(S) == CHOOSE i \in S : \A j \in S : i <= j

\* str.split(sep) for a non-empty sep: cut at the leftmost occurrence of sep,
\* continue after it; occurrences never overlap, empty segments are kept.
RECURSIVE split(_, _)
split(s, sep) ==
    LET n == Len(s)
        k == Len(sep)
        hits == {i \in 1..(n - k + 1) : SubSeq(s, i, i + k - 1) = sep}
    IN  IF hits = {} THEN <<s>>
        ELSE LET i == SetMin(hits)
             IN  <<SubSeq(s, 1, i - 1)>> \o split(SubSeq(s, i + k, n), sep)

\* The default delimiter of _split_tokens and the literal of future_has_access.
Delimiter == <<"/", "/">>


-----------------------------------------------------------------------------
(* Token classes (module tokens of the plugin) *)

\* ClassificationToken(**data): a Classification token with its names and level.
ClassificationToken(data) ==
    [kind |-> "Classification", short_name |-> data.short_name,
     long_name |-> data.long_name, level |-> data.level]

\* DisseminationControlToken(**data): a control token with its names.
DisseminationControlToken(data) ==
    [kind |-> "DisseminationControl", short_name |-> data.short_name,
     long_name |-> data.long_name]

\* UnknownToken(long_name=marking): the sentinel carrying the raw segment text.
UnknownToken(long_name) == [kind |-> "Unknown", long_name |-> long_name]

\* InvalidFormatToken(): the sentinel of a malformed configuration entry.
InvalidFormatToken == [kind |-> "InvalidFormat"]

\* A token that carries both names the lookup maps are keyed by.
Named(token) == {"short_name", "long_name"} \subseteq DOMAIN token

-----------------------------------------------------------------------------
(* Configuration entries *)

\* A str compared only as a whole (the 'type' of a configuration entry).
Lit(name) == [t |-> "str", lit |-> name]

\* A dict value: d is the function from the keys present to their values.
Dict(d) == [t |-> "dict", d |-> d]

\* dict.get(key): the value, or None when the key is absent.
Get(d, key) == IF key \in DOMAIN d THEN d[key] ELSE None

s_U == <<"U">>

s_C == <<"C">>

s_S == <<"S">>

s_TS == <<"T","S">>

s_FOUO == <<"F","O","U","O">>

s_Unclassified == <<"U","n","c","l","a","s","s","i","f","i","e","d">>

s_Confidential == <<"C","o","n","f","i","d","e","n","t","i","a","l">>

s_Secret == <<"S","e","c","r","e","t">>

s_TopSecret == <<"T","o","p"," ","S","e","c","r","e","t">>

s_ForOfficialUseOnly == <<"F","O","R"," ","O","F","F","I","C","I","A","L"," ","U","S","E"," ","O","N","L","Y">>

\* The module-level list of token definitions.
tokens_list ==
    << [type |-> Lit("Classification"),
        data |-> Dict([short_name |-> s_U, long_name |-> s_Unclassified, level |-> 1])],
       [type |-> Lit("Classification"),
        data |-> Dict([short_name |-> s_C, long_name |-> s_Confidential, level |-> 2])],
       [type |-> Lit("Classification"),
        data |-> Dict([short_name |-> s_S, long_name |-> s_Secret, level |-> 3])],
       [type |-> Lit("Classification"),
        data |-> Dict([short_name |-> s_TS, long_name |-> s_TopSecret, level |-> 4])],
       [type |-> Lit("DisseminationControl"),
        data |-> Dict([short_name |-> s_FOUO, long_name |-> s_ForOfficialUseOnly])] >>

\* token_type_class(**data): unpacking a value that is no mapping raises
\* TypeError before the constructor runs.
Construct(kind, data) ==
    IF data.t # "dict" THEN Raise("TypeError")
    ELSE IF kind = "Classification" THEN Return(ClassificationToken(data.d))
    ELSE Return(DisseminationControlToken(data.d))

\* PluginMain._convert_dict_to_token
_convert_dict_to_token(input) ==
    LET type == Get(input, "type")
        data == Get(input, "data")
    IN  IF type = None \/ data = None THEN Return(InvalidFormatToken)
        ELSE IF type = Lit("Classification") THEN Construct("Classification", data)
        ELSE IF type = Lit("DisseminationControl") THEN Construct("DisseminationControl", data)
        ELSE Return(InvalidFormatToken)

\* The list comprehension of __init__: the converted entries in order, or the
\* first exception a conversion raises.
PluginMain_init(definitions) ==
    LET conv == [i \in 1..Len(definitions) |-> _convert_dict_to_token(definitions[i])]
        bad == {i \in 1..Len(definitions) : conv[i].k = "raise"}
    IN  IF bad # {} THEN conv[SetMin(bad)]
        ELSE Return([i \in 1..Len(definitions) |-> conv[i].v])

-----------------------------------------------------------------------------
(* Tokenizer and validator *)

SetMax(S) == CHOOSE i \in S : \A j \in S : j <= i

\* The dict built by `for token in self.tokens: lookup[name.upper()] = token`:
\* a later token replaces an earlier one under the same key.
long_name_lookup(registry) ==
    LET keys == {upper(registry[i].long_name) : i \in 1..Len(registry)}
    IN  [key \in keys |->
            registry[SetMax({i \in 1..Len(registry) : upper(registry[i].long_name) = key})]]

short_name_lookup(registry) ==
    LET keys == {upper(registry[i].short_name) : i \in 1..Len(registry)}
    IN  [key \in keys |->
            registry[SetMax({i \in 1..Len(registry) : upper(registry[i].short_name) = key})]]

\* A lookup that upper-cases the text an UnknownToken carries.
current_token_upperUnknown(registry, marking) ==
    IF upper(marking) \in DOMAIN long_name_lookup(registry)
    THEN long_name_lookup(registry)[upper(marking)]
    ELSE IF upper(marking) \in DOMAIN short_name_lookup(registry)
         THEN short_name_lookup(registry)[upper(marking)]
         ELSE UnknownToken(upper(marking))

\* A lookup that tries the short-name map before the long-name map.
current_token_shortFirst(registry, marking) ==
    IF upper(marking) \in DOMAIN short_name_lookup(registry)
    THEN short_name_lookup(registry)[upper(marking)]
    ELSE IF upper(marking) \in DOMAIN long_name_lookup(registry)
         THEN long_name_lookup(registry)[upper(marking)]
         ELSE UnknownToken(marking)

\* The body of the loop of _split_tokens on the two dicts built before it.
token_of(long_names, short_names, marking) ==
    IF upper(marking) \in DOMAIN long_names THEN long_names[upper(marking)]
    ELSE IF upper(marking) \in DOMAIN short_names THEN short_names[upper(marking)]
    ELSE UnknownToken(marking)

\* The token of one segment in a registry.
current_token(registry, marking) ==
    token_of(long_name_lookup(registry), short_name_lookup(registry), marking)

\* PluginMain._split_tokens on a str
_split_tokens(registry, input_marking, delimiter) ==
    LET markings == split(input_marking, delimiter)
    IN  [i \in 1..Len(markings) |-> current_token(registry, markings[i])]

\* A validator that also rejects a marking with an unknown later segment.
validate_marking_allKnown(registry, marking) ==
    IF ~Truthy(marking) THEN FALSE
    ELSE LET toks == _split_tokens(registry, marking.s, Delimiter)
         IN  /\ toks[1].kind = "Classification"
             /\ \A i \in 2..Len(toks) : toks[i].kind # "Unknown"

\* PluginMain.validate_marking
validate_marking(registry, marking) ==
    IF ~Truthy(marking) THEN FALSE
    ELSE LET toks == _split_tokens(registry, marking.s, Delimiter)
         IN  IF toks[1].kind # "Classification" THEN FALSE ELSE TRUE

-----------------------------------------------------------------------------
(* JSON: the profile payload is a text, a sequence of lexemes *)

JNull == [t |-> "null"]

JNum(n) == [t |-> "number", n |-> n]

JStr(s) == [t |-> "string", s |-> s]

JArr(items) == [t |-> "array", items |-> items]

\* A decoded object is a Python dict: d maps the keys present to their values.
JObj(d) == [t |-> "object", d |-> d]

Lex(l) == [l |-> l]

LexStr(s) == [l |-> "str", s |-> s]

LexNum(n) == [l |-> "num", n |-> n]

\* A str argument holding a JSON text.
Text(lexemes) == [t |-> "str", json |-> lexemes]

ParseFail == [ok |-> FALSE]

Parsed(v, rest) == [ok |-> TRUE, v |-> v, rest |-> rest]

\* d[key] = v on a dict: a repeated key keeps the last value.
DictSet(d, key, v) ==
    [k \in DOMAIN d \cup {key} |-> IF k = key THEN v ELSE d[k]]

\* The decoder of json.loads: one value at the head of the lexemes, and what
\* follows it; ParseFail where the text is not JSON.
RECURSIVE ParseValue(_), ParseElements(_, _), ParseMembers(_, _)
ParseValue(ts) ==
    IF ts = <<>> THEN ParseFail
    ELSE LET h == Head(ts)
             r == Tail(ts)
         IN  CASE h.l = "null" -> Parsed(JNull, r)
               [] h.l = "num" -> Parsed(JNum(h.n), r)
               [] h.l = "str" -> Parsed(JStr(h.s), r)
               [] h.l = "[" ->
                    IF r # <<>> /\ Head(r).l = "]" THEN Parsed(JArr(<<>>), Tail(r))
                    ELSE ParseElements(r, <<>>)
               [] h.l = "{" ->
                    IF r # <<>> /\ Head(r).l = "}" THEN Parsed(JObj(<<>>), Tail(r))
                    ELSE ParseMembers(r, <<>>)
               [] OTHER -> ParseFail

ParseElements(ts, acc) ==
    LET e == ParseValue(ts)
    IN  IF ~e.ok \/ e.rest = <<>> THEN ParseFail
        ELSE IF Head(e.rest).l = "," THEN ParseElements(Tail(e.rest), Append(acc, e.v))
        ELSE IF Head(e.rest).l = "]" THEN Parsed(JArr(Append(acc, e.v)), Tail(e.rest))
        ELSE ParseFail

ParseMembers(ts, acc) ==
    IF Len(ts) < 2 \/ ts[1].l # "str" \/ ts[2].l # ":" THEN ParseFail
    ELSE LET e == ParseValue(SubSeq(ts, 3, Len(ts)))
         IN  IF ~e.ok \/ e.rest = <<>> THEN ParseFail
             ELSE IF Head(e.rest).l = ","
                  THEN ParseMembers(Tail(e.rest), DictSet(acc, ts[1].s, e.v))
             ELSE IF Head(e.rest).l = "}"
                  THEN Parsed(JObj(DictSet(acc, ts[1].s, e.v)), Tail(e.rest))
             ELSE ParseFail

\* json.loads(s): TypeError for None, ValueError for a text that is not one
\* JSON value, the decoded value otherwise.
json_loads(s) ==
    IF s = None THEN Raise("TypeError")
    ELSE LET p == ParseValue(s.json)
         IN  IF p.ok /\ p.rest = <<>> THEN Return(p.v) ELSE Raise("ValueError")

\* json.dumps of a list of str
RECURSIVE DumpsItems(_)
DumpsItems(items) ==
    IF items = <<>> THEN <<>>
    ELSE IF Len(items) = 1 THEN <<LexStr(items[1])>>
    ELSE <<LexStr(items[1]), Lex(",")>> \o DumpsItems(Tail(items))

DumpsList(items) == <<Lex("[")>> \o DumpsItems(items) \o <<Lex("]")>>

\* json.dumps of a dict whose values are lists of str; members is the dict's
\* items in order, each <<key, list>>.
RECURSIVE DumpsMembers(_)
DumpsMembers(members) ==
    IF members = <<>> THEN <<>>
    ELSE LET m == <<LexStr(members[1][1]), Lex(":")>> \o DumpsList(members[1][2])
         IN  IF Len(members) = 1 THEN m
             ELSE m \o <<Lex(",")>> \o DumpsMembers(Tail(members))

json_dumps(members) == <<Lex("{")>> \o DumpsMembers(members) \o <<Lex("}")>>

-----------------------------------------------------------------------------
(* Access decisions *)

k_clearances == <<"c","l","e","a","r","a","n","c","e","s">>

k_formal_accesses == <<"f","o","r","m","a","l","_","a","c","c","e","s","s","e","s">>

k_visas == <<"v","i","s","a","s">>

\* `x in lst` for a str x and a decoded JSON array lst
InList(x, items) == \E i \in 1..Len(items) : items[i] = JStr(x)

\* `x in lst` that ignores letter case
InListAnyCase(x, items) ==
    \E i \in 1..Len(items) : items[i].t = "string" /\ upper(items[i].s) = upper(x)

\* A decision that looks the required controls up in formal_accesses only.
decide_formalOnly(user_accesses, markings) ==
    IF user_accesses.t # "object" THEN Raise("TypeError")
    ELSE IF k_clearances \notin DOMAIN user_accesses.d THEN Raise("KeyError")
    ELSE IF ~InList(markings[1], user_accesses.d[k_clearances].items) THEN Return(FALSE)
    ELSE IF k_formal_accesses \notin DOMAIN user_accesses.d THEN Raise("KeyError")
    ELSE IF k_visas \notin DOMAIN user_accesses.d THEN Raise("KeyError")
    ELSE Return(\A i \in 2..Len(markings) :
                    InList(markings[i], user_accesses.d[k_formal_accesses].items))

\* A decision that compares the clearance without regard to letter case.
decide_anyCase(user_accesses, markings) ==
    IF user_accesses.t # "object" THEN Raise("TypeError")
    ELSE IF k_clearances \notin DOMAIN user_accesses.d THEN Raise("KeyError")
    ELSE IF ~InListAnyCase(markings[1], user_accesses.d[k_clearances].items) THEN Return(FALSE)
    ELSE IF k_formal_accesses \notin DOMAIN user_accesses.d THEN Raise("KeyError")
    ELSE IF k_visas \notin DOMAIN user_accesses.d THEN Raise("KeyError")
    ELSE Return(\A i \in 2..Len(markings) :
                    InList(markings[i], user_accesses.d[k_formal_accesses].items
                                          \o user_accesses.d[k_visas].items))

\* The call goes on to its next statement.
Continue == [k |-> "continue"]

\* "check clearances" of future_has_access. Subscripting a value that is no
\* dict with a str raises TypeError, a dict without the key raises KeyError.
check_clearances(user_accesses, markings) ==
    IF user_accesses.t # "object" THEN Raise("TypeError")
    ELSE IF k_clearances \notin DOMAIN user_accesses.d THEN Raise("KeyError")
    ELSE LET clearances == user_accesses.d[k_clearances].items
             required_clearance == markings[1]
         IN  IF ~InList(required_clearance, clearances) THEN Return(FALSE)
             ELSE Continue

\* The number of positions of a list holding the str x.
Count(x, items) == Cardinality({i \in 1..Len(items) : items[i] = x})

\* A check in which each held control answers for one required segment only.
check_controls_noRepeat(user_accesses, markings) ==
    IF k_formal_accesses \notin DOMAIN user_accesses.d THEN Raise("KeyError")
    ELSE IF k_visas \notin DOMAIN user_accesses.d THEN Raise("KeyError")
    ELSE LET user_controls == user_accesses.d[k_formal_accesses].items
                                \o user_accesses.d[k_visas].items
             required_controls == Tail(markings)
         IN  Return(\A i \in 1..Len(required_controls) :
                        Count(required_controls[i], required_controls)
                            <= Count(JStr(required_controls[i]), user_controls))

\* The rest of future_has_access: the user's controls against the required.
check_controls(user_accesses, markings) ==
    IF k_formal_accesses \notin DOMAIN user_accesses.d THEN Raise("KeyError")
    ELSE IF k_visas \notin DOMAIN user_accesses.d THEN Raise("KeyError")
    ELSE LET user_controls == user_accesses.d[k_formal_accesses].items
                                \o user_accesses.d[k_visas].items
             required_controls == Tail(markings)
             missing_controls ==
                 SelectSeq(required_controls, LAMBDA i : ~InList(i, user_controls))
         IN  IF missing_controls = <<>> THEN Return(TRUE) ELSE Return(FALSE)

\* The part of future_has_access after json.loads returned user_accesses.
decide(user_accesses, markings) ==
    IF check_clearances(user_accesses, markings) # Continue
    THEN check_clearances(user_accesses, markings)
    ELSE check_controls(user_accesses, markings)

\* PluginMain.future_has_access
future_has_access(user_accesses_json, marking) ==
    IF ~Truthy(marking) THEN Return(FALSE)
    ELSE LET markings == split(marking.s, Delimiter)
             loaded == json_loads(user_accesses_json)
         IN  IF loaded.k = "raise"
             THEN IF loaded.exc = "ValueError" THEN Return(FALSE) ELSE loaded
             ELSE decide(loaded.v, markings)

\* An entry point that runs the strict decision.
has_access_strict(user_accesses_json, marking) ==
    future_has_access(user_accesses_json, marking)

\* PluginMain.has_access
has_access(user_accesses_json, marking) == Return(TRUE)

-----------------------------------------------------------------------------
(* Inputs *)

\* The number of pieces appended to the first piece of a marking.
MaxTail == 2

s_ABC == <<"A","B","C">>

\* First pieces: '', 'S', 's', 'TS', 'Secret', 'FOUO'.
Heads == {<<>>, s_S, <<"s">>, s_TS, s_Secret, s_FOUO}

\* Appended pieces: '//ABC', '//abc', '//FOUO', '//TS', a bare '//' and a
\* single '/'.
Tails ==
    {Delimiter \o s_ABC, Delimiter \o <<"a", "b", "c">>, Delimiter \o s_FOUO,
     Delimiter \o s_TS, Delimiter, <<"/">>}

RECURSIVE TailStrings(_)
TailStrings(n) ==
    IF n = 0 THEN {<<>>}
    ELSE LET prev == TailStrings(n - 1)
         IN  prev \cup {p \o t : p \in prev, t \in Tails}

MarkingStrings == {h \o t : h \in Heads, t \in TailStrings(MaxTail)}

MarkingArgs == {None} \cup {Str(m) : m \in MarkingStrings}

\* One optional member of the profile dict: absent, or the key with a list.
Member(key, lists) == {<<>>} \cup {<< <<key, l>> >> : l \in lists}

\* The dicts a profile payload is dumped from, as item lists; each of the
\* three keys may be missing.
ProfileDicts ==
    {c \o f \o v :
        c \in Member(k_clearances, {<<s_S>>, <<s_TS>>}),
        f \in Member(k_formal_accesses, {<<>>, <<s_ABC, <<>> >>}),
        v \in Member(k_visas, {<<>>, <<s_FOUO>>})}

\* Payloads: None, texts that are not JSON ('' and '{'), JSON values that are
\* no object (null, 7, "S", ["S"]), and dumped profile dicts.
Payloads ==
    {None, Text(<<>>), Text(<<Lex("{")>>),
     Text(<<Lex("null")>>), Text(<<LexNum(7)>>), Text(<<LexStr(s_S)>>),
     Text(DumpsList(<<s_S>>))}
    \cup {Text(json_dumps(m)) : m \in ProfileDicts}

Requests == [profile : Payloads, marking : MarkingArgs]

-----------------------------------------------------------------------------
(* The engine: one call at a time *)

MainThread == 1

Idle == [pc |-> "idle", op |-> "none", ret |-> NoCall]

Done(op, ret) == [pc |-> "done", op |-> op, ret |-> ret]

\* self._split_tokens(marking) called with the argument as given: None has
\* no split method.
call_split_tokens(registry, marking) ==
    IF marking = None THEN Raise("AttributeError")
    ELSE Return(_split_tokens(registry, marking.s, Delimiter))

Init ==
    /\ engine = "ready"
    /\ defs = tokens_list
    /\ tokens = PluginMain_init(tokens_list).v
    /\ req \in [{MainThread} -> Requests]
    /\ fr = [t \in {MainThread} |-> Idle]
    /\ auth = NoStore

HasAccess(t) ==
    /\ engine = "ready"
    /\ fr[t].pc = "idle"
    /\ fr' = [fr EXCEPT ![t] = Done("has_access", has_access(req[t].profile, req[t].marking))]
    /\ UNCHANGED <<engine, defs, tokens, req, auth>>

FutureHasAccess(t) ==
    /\ engine = "ready"
    /\ fr[t].pc = "idle"
    /\ fr' = [fr EXCEPT ![t] =
                Done("future_has_access", future_has_access(req[t].profile, req[t].marking))]
    /\ UNCHANGED <<engine, defs, tokens, req, auth>>

ValidateMarking(t) ==
    /\ engine = "ready"
    /\ fr[t].pc = "idle"
    /\ fr' = [fr EXCEPT ![t] =
                Done("validate_marking", Return(validate_marking(tokens, req[t].marking)))]
    /\ UNCHANGED <<engine, defs, tokens, req, auth>>

SplitTokens(t) ==
    /\ engine = "ready"
    /\ fr[t].pc = "idle"
    /\ fr' = [fr EXCEPT ![t] = Done("_split_tokens", call_split_tokens(tokens, req[t].marking))]
    /\ UNCHANGED <<engine, defs, tokens, req, auth>>

\* The call returns to the host, which may call again.
Finish(t) ==
    /\ fr[t].pc = "done"
    /\ fr' = [fr EXCEPT ![t] = Idle]
    /\ UNCHANGED <<engine, defs, tokens, req, auth>>

Next ==
    \/ HasAccess(MainThread)
    \/ FutureHasAccess(MainThread)
    \/ ValidateMarking(MainThread)
    \/ SplitTokens(MainThread)
    \/ Finish(MainThread)

Spec == Init /\ [][Next]_vars

-----------------------------------------------------------------------------
(* Properties of the sequential engine *)

Returned(t, op) == fr[t].pc = "done" /\ fr[t].op = op

\* The segments of a str marking.
Segments(marking) == split(marking.s, Delimiter)

\* The payload decodes to an object.
IsObject(payload) ==
    /\ json_loads(payload).k = "return"
    /\ json_loads(payload).v.t = "object"

\* The payload decodes to an object holding all three lists.
CompleteProfile(payload) ==
    /\ IsObject(payload)
    /\ {k_clearances, k_formal_accesses, k_visas} \subseteq DOMAIN json_loads(payload).v.d

\* The identifiers the decoded profile holds under a key.
Held(payload, key) ==
    LET items == json_loads(payload).v.d[key].items
    IN  {items[i].s : i \in {j \in 1..Len(items) : items[j].t = "string"}}

HeldControls(payload) == Held(payload, k_formal_accesses) \cup Held(payload, k_visas)

\* C1: with a profile that decodes to an object holding the three lists,
\* future_has_access returns true exactly when the marking is non-empty, its
\* first segment is literally one of clearances and every later segment, the
\* empty ones included, is one of formal_accesses or visas; otherwise false.
C1_StrictMembership ==
    \A t \in DOMAIN fr :
        (Returned(t, "future_has_access") /\ CompleteProfile(req[t].profile)) =>
            fr[t].ret = Return(
                /\ Truthy(req[t].marking)
                /\ Segments(req[t].marking)[1] \in Held(req[t].profile, k_clearances)
                /\ \A i \in 2..Len(Segments(req[t].marking)) :
                       Segments(req[t].marking)[i] \in HeldControls(req[t].profile))

\* A granted marking of three segments whose last segment is empty.
C1_Witness ==
    \E t \in DOMAIN fr :
        /\ Returned(t, "future_has_access")
        /\ CompleteProfile(req[t].profile)
        /\ fr[t].ret = Return(TRUE)
        /\ Len(Segments(req[t].marking)) = 3
        /\ Segments(req[t].marking)[3] = <<>>
        /\ Segments(req[t].marking)[2] \in Held(req[t].profile, k_formal_accesses)

\* C2: whatever the payload and the marking, future_has_access returns a
\* boolean and never raises, and a payload that is not a complete profile
\* yields false.
C2_FailClosed ==
    \A t \in DOMAIN fr :
        Returned(t, "future_has_access") =>
            /\ fr[t].ret.k = "return"
            /\ ~CompleteProfile(req[t].profile) => fr[t].ret = Return(FALSE)

\* Some name of a Classification token of the registry equals the segment
\* after upper-casing both.
IsClassificationName(registry, seg) ==
    \E i \in 1..Len(registry) :
        /\ registry[i].kind = "Classification"
        /\ upper(seg) \in {upper(registry[i].long_name), upper(registry[i].short_name)}

\* C3: validate_marking returns false for None and '', and for any other
\* marking returns true exactly when its first segment is, up to letter case,
\* the long or short name of a Classification token; later segments do not
\* matter.
C3_FirstSegmentDecides ==
    \A t \in DOMAIN fr :
        Returned(t, "validate_marking") =>
            fr[t].ret = Return(
                /\ Truthy(req[t].marking)
                /\ IsClassificationName(tokens, Segments(req[t].marking)[1]))

\* A marking accepted although a later segment is a classification and
\* another is unknown, its first segment written in lower case.
C3_Witness ==
    \E t \in DOMAIN fr :
        /\ Returned(t, "validate_marking")
        /\ fr[t].ret = Return(TRUE)
        /\ Len(Segments(req[t].marking)) = 3
        /\ Segments(req[t].marking)[1] = <<"s">>
        /\ IsClassificationName(tokens, Segments(req[t].marking)[2])
        /\ Segments(req[t].marking)[3] = s_ABC

\* The token's long or short name equals the segment after upper-casing both.
Matches(token, seg) ==
    /\ Named(token)
    /\ upper(seg) \in {upper(token.long_name), upper(token.short_name)}

RegistryTokens(registry) == {registry[i] : i \in 1..Len(registry)}

\* C4: on a str, _split_tokens returns one token per segment of the split, in
\* order: a registry token matching the segment, or, when no registry name
\* matches, an UnknownToken whose long_name is the segment as written.
C4_OneTokenPerSegment ==
    \A t \in DOMAIN fr :
        (Returned(t, "_split_tokens") /\ req[t].marking # None) =>
            /\ fr[t].ret.k = "return"
            /\ Len(fr[t].ret.v) = Len(Segments(req[t].marking))
            /\ \A i \in 1..Len(Segments(req[t].marking)) :
                   LET seg == Segments(req[t].marking)[i]
                       tok == fr[t].ret.v[i]
                   IN  IF \E r \in RegistryTokens(tokens) : Matches(r, seg)
                       THEN tok \in RegistryTokens(tokens) /\ Matches(tok, seg)
                       ELSE tok = [kind |-> "Unknown", long_name |-> seg]

\* A tokenization with a matched segment, an unknown one in lower case and an
\* empty one.
C4_Witness ==
    \E t \in DOMAIN fr :
        /\ Returned(t, "_split_tokens")
        /\ req[t].marking # None
        /\ Len(fr[t].ret.v) = 3
        /\ fr[t].ret.v[1].kind = "Classification"
        /\ fr[t].ret.v[2] = [kind |-> "Unknown", long_name |-> <<"a", "b", "c">>]
        /\ fr[t].ret.v[3] = [kind |-> "Unknown", long_name |-> <<>>]

\* C7: has_access returns true whatever its arguments.
C7_AlwaysTrue ==
    \A t \in DOMAIN fr : Returned(t, "has_access") => fr[t].ret = Return(TRUE)

\* has_access returned for a payload that is None and a marking that is None.
C7_Witness ==
    \E t \in DOMAIN fr :
        /\ Returned(t, "has_access")
        /\ req[t].profile = None
        /\ req[t].marking = None

\* The level of the Classification token whose short or long name is the text
\* as written, 0 if there is none.
LevelOf(registry, text) ==
    LET named == {i \in 1..Len(registry) :
                     /\ registry[i].kind = "Classification"
                     /\ text \in {registry[i].short_name, registry[i].long_name}}
    IN  IF named = {} THEN 0 ELSE registry[SetMin(named)].level

\* C8: holding a classification of the required level or higher, and all
\* required controls, suffices for future_has_access to grant.
C8_HigherClearanceSuffices ==
    \A t \in DOMAIN fr :
        ( /\ Returned(t, "future_has_access")
          /\ CompleteProfile(req[t].profile)
          /\ Truthy(req[t].marking)
          /\ LevelOf(tokens, Segments(req[t].marking)[1]) > 0
          /\ \E c \in Held(req[t].profile, k_clearances) :
                 LevelOf(tokens, c) >= LevelOf(tokens, Segments(req[t].marking)[1])
          /\ \A i \in 2..Len(Segments(req[t].marking)) :
                 Segments(req[t].marking)[i] \in HeldControls(req[t].profile) )
        => fr[t].ret = Return(TRUE)

\* Every segment equals a held identifier up to letter case (the first a held
\* clearance that names a Classification token, the later ones held
\* controls), and at least one segment is not held as written.
CaseOnlyMismatch(r) ==
    /\ Truthy(r.marking)
    /\ CompleteProfile(r.profile)
    /\ LET segs == Segments(r.marking)
           clearances == Held(r.profile, k_clearances)
           controls == HeldControls(r.profile)
       IN  /\ \E c \in clearances :
                  upper(c) = upper(segs[1]) /\ IsClassificationName(tokens, c)
           /\ \A i \in 2..Len(segs) : \E c \in controls : upper(c) = upper(segs[i])
           /\ \/ segs[1] \notin clearances
              \/ \E i \in 2..Len(segs) : segs[i] \notin controls

\* C10: when the segments of a marking equal the held identifiers only up to
\* letter case, future_has_access denies and validate_marking accepts.
C10_CaseDivergence ==
    \A t \in DOMAIN fr :
        (fr[t].pc = "done" /\ CaseOnlyMismatch(req[t])) =>
            /\ fr[t].op = "future_has_access" => fr[t].ret = Return(FALSE)
            /\ fr[t].op = "validate_marking" => fr[t].ret = Return(TRUE)

\* 's' required and ['S'] held: denied.
C10_Witness ==
    \E t \in DOMAIN fr :
        /\ Returned(t, "future_has_access")
        /\ CaseOnlyMismatch(req[t])
        /\ Segments(req[t].marking) = << <<"s">> >>
        /\ Held(req[t].profile, k_clearances) = {s_S}
        /\ fr[t].ret = Return(FALSE)

\* The segments joined by the delimiter.
RECURSIVE Join(_)
Join(segs) ==
    IF Len(segs) = 1 THEN segs[1]
    ELSE segs[1] \o Delimiter \o Join(Tail(segs))

Range(items) == {items[i] : i \in 1..Len(items)}

\* The list without its i-th item.
Remove(items, i) == SubSeq(items, 1, i - 1) \o SubSeq(items, i + 1, Len(items))

\* The str markings that split into the same first segment followed by the
\* same control segments in any order, each once or more (at most one segment
\* more than the marking has).
Reordered(marking) ==
    LET segs == Segments(marking)
        controls == Range(Tail(segs))
        lists == UNION {[1..n -> controls] : n \in 0..Len(segs)}
    IN  {Str(Join(<<segs[1]>> \o l)) :
            l \in {x \in lists : /\ Range(x) = controls
                                 /\ split(Join(<<segs[1]>> \o x), Delimiter)
                                        = <<segs[1]>> \o x}}

\* The list a complete profile holds under a key, as a list of str.
HeldList(payload, key) ==
    LET items == json_loads(payload).v.d[key].items
    IN  [i \in 1..Len(items) |-> items[i].s]

DumpedProfile(clearances, formal_accesses, visas) ==
    Text(json_dumps(<< <<k_clearances, clearances>>,
                       <<k_formal_accesses, formal_accesses>>,
                       <<k_visas, visas>> >>))

\* The profiles got from a complete profile by moving one identifier from
\* formal_accesses to visas or back, or by writing one identifier of a list
\* once more.
Rearranged(payload) ==
    LET c == HeldList(payload, k_clearances)
        f == HeldList(payload, k_formal_accesses)
        v == HeldList(payload, k_visas)
    IN  {DumpedProfile(c, Remove(f, i), Append(v, f[i])) : i \in DOMAIN f}
        \cup {DumpedProfile(c, Append(f, v[i]), Remove(v, i)) : i \in DOMAIN v}
        \cup {DumpedProfile(Append(c, c[i]), f, v) : i \in DOMAIN c}
        \cup {DumpedProfile(c, Append(f, f[i]), v) : i \in DOMAIN f}
        \cup {DumpedProfile(c, f, Append(v, v[i])) : i \in DOMAIN v}
        \cup {DumpedProfile(c, Append(f, v[i]), v) : i \in DOMAIN v}

\* C11: with a profile holding the three lists, the result of
\* future_has_access does not change when the control segments after the
\* first segment are reordered or repeated, nor when an identifier of the
\* profile is moved between formal_accesses and visas or written once more;
\* and a marking of one segment that is a held clearance is granted.
C11_ControlsAsSets ==
    \A t \in DOMAIN fr :
        ( /\ Returned(t, "future_has_access")
          /\ Truthy(req[t].marking)
          /\ CompleteProfile(req[t].profile) )
        => /\ \A m \in Reordered(req[t].marking) :
                  future_has_access(req[t].profile, m) = fr[t].ret
           /\ \A p \in Rearranged(req[t].profile) :
                  future_has_access(p, req[t].marking) = fr[t].ret
           /\ ( /\ Len(Segments(req[t].marking)) = 1
                /\ Segments(req[t].marking)[1] \in Held(req[t].profile, k_clearances) )
              => fr[t].ret = Return(TRUE)

\* 'S//ABC//FOUO' granted to a profile with 'ABC' in formal_accesses and
\* 'FOUO' in visas: the segments can be swapped and repeated, the identifiers
\* moved.
C11_Witness ==
    \E t \in DOMAIN fr :
        /\ Returned(t, "future_has_access")
        /\ CompleteProfile(req[t].profile)
        /\ Truthy(req[t].marking)
        /\ Segments(req[t].marking) = <<s_S, s_ABC, s_FOUO>>
        /\ s_ABC \in Held(req[t].profile, k_formal_accesses)
        /\ s_FOUO \in Held(req[t].profile, k_visas)
        /\ Str(s_S \o Delimiter \o s_FOUO \o Delimiter \o s_ABC \o Delimiter \o s_ABC)
               \in Reordered(req[t].marking)
        /\ Cardinality(Rearranged(req[t].profile)) >= 6
        /\ fr[t].ret = Return(TRUE)

-----------------------------------------------------------------------------
(* Construction from any list of definitions, and lookups in the result *)

\* The length of the lists of definitions.
MaxDefs == 2

s_SECRET == <<"S","E","C","R","E","T">>

s_secret == <<"s","e","c","r","e","t">>

s_abc == <<"a","b","c">>

\* Entries: Secret and FOUO of tokens_list; a control whose short name is the
\* upper-cased long name of Secret; an entry without type, one whose type is
\* None, one without data, one of an unrecognized type, and a Classification
\* whose data is a str.
Entries ==
    {tokens_list[3], tokens_list[5],
     [type |-> Lit("DisseminationControl"),
      data |-> Dict([short_name |-> s_SECRET, long_name |-> <<"S","C","I">>])],
     [data |-> Dict([short_name |-> s_S, long_name |-> s_Secret, level |-> 3])],
     [type |-> None,
      data |-> Dict([short_name |-> s_S, long_name |-> s_Secret, level |-> 3])],
     [type |-> Lit("Classification")],
     [type |-> Lit("Caveat"),
      data |-> Dict([short_name |-> s_ABC, long_name |-> s_ABC])],
     [type |-> Lit("Classification"), data |-> Lit("oops")]}

DefLists == UNION {[1..n -> Entries] : n \in 0..MaxDefs}

RegSegments == {s_secret, s_SECRET, <<"s">>, s_S, s_abc, s_ABC}

RegMarkings ==
    {Str(a) : a \in RegSegments}
    \cup {Str(a \o Delimiter \o b) : a \in RegSegments, b \in RegSegments}

InitRegistry ==
    /\ engine = "new"
    /\ defs \in DefLists
    /\ tokens = <<>>
    /\ req \in [{MainThread} -> [profile : {None}, marking : RegMarkings]]
    /\ fr = [t \in {MainThread} |-> Idle]
    /\ auth = NoStore

\* PluginMain.__init__ on the list of definitions: the registry is assigned
\* only if no conversion raised.
ConstructEngine ==
    /\ engine = "new"
    /\ LET r == PluginMain_init(defs)
       IN  IF r.k = "raise"
           THEN engine' = "raised" /\ tokens' = tokens
           ELSE engine' = "ready" /\ tokens' = r.v
    /\ UNCHANGED <<defs, req, fr, auth>>

\* Every token of the registry carries the names the lookup maps read.
AllNamed == \A i \in 1..Len(tokens) : Named(tokens[i])

\* A lookup in a registry of named tokens.
LookupNamed ==
    /\ AllNamed
    /\ SplitTokens(MainThread)

NextRegistry ==
    \/ ConstructEngine
    \/ LookupNamed
    \/ Finish(MainThread)

SpecRegistry == InitRegistry /\ [][NextRegistry]_vars

\* The kind the type of a configuration entry asks for.
KindOfType(entry) ==
    IF Get(entry, "type") = Lit("Classification") THEN "Classification"
    ELSE IF Get(entry, "type") = Lit("DisseminationControl") THEN "DisseminationControl"
    ELSE "InvalidFormat"

\* C6: construction from any list of definitions finishes without raising and
\* yields one token per entry; an entry of type Classification or
\* DisseminationControl that has data gives a token of that kind, an entry of
\* any other or no type gives InvalidFormatToken.
C6_ConstructionTotal ==
    engine # "new" =>
        /\ engine = "ready"
        /\ Len(tokens) = Len(defs)
        /\ \A i \in 1..Len(defs) :
               (Get(defs[i], "data") # None \/ KindOfType(defs[i]) = "InvalidFormat")
                   => tokens[i].kind = KindOfType(defs[i])

\* C5 as claimed: any two segments of a marking that are equal after
\* upper-casing resolve to the same token.
C5_SameTokenForAnyCase ==
    \A t \in DOMAIN fr :
        (Returned(t, "_split_tokens") /\ fr[t].ret.k = "return") =>
            \A i, j \in 1..Len(fr[t].ret.v) :
                upper(Segments(req[t].marking)[i]) = upper(Segments(req[t].marking)[j])
                    => fr[t].ret.v[i] = fr[t].ret.v[j]

LongNamed(registry, seg) ==
    {r \in RegistryTokens(registry) : upper(r.long_name) = upper(seg)}

ShortNamed(registry, seg) ==
    {r \in RegistryTokens(registry) : upper(r.short_name) = upper(seg)}

\* C5 as amended: a segment that equals, after upper-casing, the long name of
\* a registry token resolves to a token of that long name; otherwise one that
\* equals a short name resolves to a token of that short name; two such
\* segments equal after upper-casing resolve to the same token; a segment
\* matching no name resolves to an UnknownToken carrying it as written.
C5_LongBeforeShort ==
    \A t \in DOMAIN fr :
        (Returned(t, "_split_tokens") /\ fr[t].ret.k = "return") =>
            LET segs == Segments(req[t].marking)
                toks == fr[t].ret.v
            IN  /\ \A i \in 1..Len(segs) :
                       IF LongNamed(tokens, segs[i]) # {}
                       THEN toks[i] \in LongNamed(tokens, segs[i])
                       ELSE IF ShortNamed(tokens, segs[i]) # {}
                            THEN toks[i] \in ShortNamed(tokens, segs[i])
                            ELSE toks[i] = [kind |-> "Unknown", long_name |-> segs[i]]
                /\ \A i, j \in 1..Len(segs) :
                       ( /\ upper(segs[i]) = upper(segs[j])
                         /\ LongNamed(tokens, segs[i]) \cup ShortNamed(tokens, segs[i]) # {} )
                           => toks[i] = toks[j]

\* 'secret//SECRET' looked up in a registry where SECRET is the long name of
\* one token and the short name of another: both segments resolve to the
\* token of that long name.
C5_Witness ==
    \E t \in DOMAIN fr :
        /\ Returned(t, "_split_tokens")
        /\ fr[t].ret.k = "return"
        /\ Segments(req[t].marking) = <<s_secret, s_SECRET>>
        /\ LongNamed(tokens, s_secret) # {}
        /\ ShortNamed(tokens, s_secret) # {}
        /\ LongNamed(tokens, s_secret) \cap ShortNamed(tokens, s_secret) = {}
        /\ fr[t].ret.v[1] \in LongNamed(tokens, s_secret)
        /\ fr[t].ret.v[2] = fr[t].ret.v[1]

-----------------------------------------------------------------------------
(* Concurrent callers of one engine: each method runs statement by statement *)

ConcThreads == {1, 2}

\* 'S//ABC//FOUO', 's//abc' and None.
ConcMarkings ==
    {Str(s_S \o Delimiter \o s_ABC \o Delimiter \o s_FOUO),
     Str(<<"s">> \o Delimiter \o s_abc),
     None}

\* A complete profile, one holding clearances only, and the text '{'.
ConcPayloads ==
    {Text(json_dumps(<< <<k_clearances, <<s_S>> >>, <<k_formal_accesses, <<s_ABC>> >>,
                        <<k_visas, <<s_FOUO>> >> >>)),
     Text(json_dumps(<< <<k_clearances, <<s_S>> >> >>)),
     Text(<<Lex("{")>>)}

InitConc ==
    /\ engine = "ready"
    /\ defs = tokens_list
    /\ tokens = PluginMain_init(tokens_list).v
    /\ req \in [ConcThreads -> [profile : ConcPayloads, marking : ConcMarkings]]
    /\ fr = [t \in ConcThreads |-> Idle]
    /\ auth = NoStore

\* A call in progress: the statement it is at and its local variables.
Running(op, pc, loc) == [pc |-> pc, op |-> op, ret |-> NoCall, loc |-> loc]

\* future_has_access up to marking.split('//').
BeginFutureHasAccess(t) ==
    /\ fr[t].pc = "idle"
    /\ fr' = [fr EXCEPT ![t] =
                IF ~Truthy(req[t].marking)
                THEN Done("future_has_access", Return(FALSE))
                ELSE Running("future_has_access", "loads",
                             [markings |-> split(req[t].marking.s, Delimiter)])]
    /\ UNCHANGED <<engine, defs, tokens, req, auth>>

\* The try block around json.loads.
LoadProfile(t) ==
    /\ fr[t].pc = "loads"
    /\ LET loaded == json_loads(req[t].profile)
       IN  fr' = [fr EXCEPT ![t] =
                    IF loaded.k = "raise"
                    THEN Done("future_has_access",
                              IF loaded.exc = "ValueError" THEN Return(FALSE) ELSE loaded)
                    ELSE Running("future_has_access", "clearances",
                                 [markings |-> fr[t].loc.markings,
                                  user_accesses |-> loaded.v])]
    /\ UNCHANGED <<engine, defs, tokens, req, auth>>

CheckClearances(t) ==
    /\ fr[t].pc = "clearances"
    /\ LET r == check_clearances(fr[t].loc.user_accesses, fr[t].loc.markings)
       IN  fr' = [fr EXCEPT ![t] =
                    IF r = Continue
                    THEN Running("future_has_access", "controls", fr[t].loc)
                    ELSE Done("future_has_access", r)]
    /\ UNCHANGED <<engine, defs, tokens, req, auth>>

CheckControls(t) ==
    /\ fr[t].pc = "controls"
    /\ fr' = [fr EXCEPT ![t] =
                Done("future_has_access",
                     check_controls(fr[t].loc.user_accesses, fr[t].loc.markings))]
    /\ UNCHANGED <<engine, defs, tokens, req, auth>>

\* validate_marking up to its call of self._split_tokens(marking).
BeginValidateMarking(t) ==
    /\ fr[t].pc = "idle"
    /\ fr' = [fr EXCEPT ![t] =
                IF ~Truthy(req[t].marking)
                THEN Done("validate_marking", Return(FALSE))
                ELSE Running("validate_marking", "long_names",
                             [input_marking |-> req[t].marking])]
    /\ UNCHANGED <<engine, defs, tokens, req, auth>>

\* A direct call of _split_tokens.
BeginSplitTokens(t) ==
    /\ fr[t].pc = "idle"
    /\ fr' = [fr EXCEPT ![t] =
                Running("_split_tokens", "long_names", [input_marking |-> req[t].marking])]
    /\ UNCHANGED <<engine, defs, tokens, req, auth>>

\* The first loop over self.tokens.
BuildLongNames(t) ==
    /\ fr[t].pc = "long_names"
    /\ fr' = [fr EXCEPT ![t] =
                Running(fr[t].op, "short_names",
                        [input_marking |-> fr[t].loc.input_marking,
                         long_names |-> long_name_lookup(tokens)])]
    /\ UNCHANGED <<engine, defs, tokens, req, auth>>

\* The second loop over self.tokens, then input_marking.split(delimiter).
BuildShortNames(t) ==
    /\ fr[t].pc = "short_names"
    /\ fr' = [fr EXCEPT ![t] =
                IF fr[t].loc.input_marking = None
                THEN Done(fr[t].op, Raise("AttributeError"))
                ELSE Running(fr[t].op, "loop",
                             [long_names |-> fr[t].loc.long_names,
                              short_names |-> short_name_lookup(tokens),
                              markings |-> split(fr[t].loc.input_marking.s, Delimiter),
                              output_tokens |-> <<>>])]
    /\ UNCHANGED <<engine, defs, tokens, req, auth>>

\* The next segment of a loop that has not reached the end of markings.
NextSegment(t) == fr[t].loc.markings[Len(fr[t].loc.output_tokens) + 1]

\* One pass of the loop that also stores an UnknownToken in self.tokens.
SplitLoop_caching(t) ==
    /\ fr[t].pc = "loop"
    /\ Len(fr[t].loc.output_tokens) < Len(fr[t].loc.markings)
    /\ LET tok == token_of(fr[t].loc.long_names, fr[t].loc.short_names, NextSegment(t))
       IN  /\ fr' = [fr EXCEPT ![t].loc.output_tokens = Append(@, tok)]
           /\ tokens' = IF tok.kind = "Unknown"
                        THEN Append(tokens, [kind |-> "Unknown", long_name |-> tok.long_name,
                                             short_name |-> tok.long_name])
                        ELSE tokens
    /\ UNCHANGED <<engine, defs, req, auth>>

\* One pass of `for marking in markings`.
SplitLoop(t) ==
    /\ fr[t].pc = "loop"
    /\ Len(fr[t].loc.output_tokens) < Len(fr[t].loc.markings)
    /\ fr' = [fr EXCEPT ![t].loc.output_tokens =
                Append(@, token_of(fr[t].loc.long_names, fr[t].loc.short_names,
                                   NextSegment(t)))]
    /\ UNCHANGED <<engine, defs, tokens, req, auth>>

\* `return output_tokens`, and in validate_marking the test of tokens[0].
ReturnTokens(t) ==
    /\ fr[t].pc = "loop"
    /\ Len(fr[t].loc.output_tokens) = Len(fr[t].loc.markings)
    /\ fr' = [fr EXCEPT ![t] =
                IF fr[t].op = "_split_tokens"
                THEN Done("_split_tokens", Return(fr[t].loc.output_tokens))
                ELSE Done("validate_marking",
                          Return(IF fr[t].loc.output_tokens[1].kind # "Classification"
                                 THEN FALSE ELSE TRUE))]
    /\ UNCHANGED <<engine, defs, tokens, req, auth>>

NextConc ==
    \/ \E t \in ConcThreads : HasAccess(t)
    \/ \E t \in ConcThreads : BeginFutureHasAccess(t)
    \/ \E t \in ConcThreads : LoadProfile(t)
    \/ \E t \in ConcThreads : CheckClearances(t)
    \/ \E t \in ConcThreads : CheckControls(t)
    \/ \E t \in ConcThreads : BeginValidateMarking(t)
    \/ \E t \in ConcThreads : BeginSplitTokens(t)
    \/ \E t \in ConcThreads : BuildLongNames(t)
    \/ \E t \in ConcThreads : BuildShortNames(t)
    \/ \E t \in ConcThreads : SplitLoop(t)
    \/ \E t \in ConcThreads : ReturnTokens(t)
    \/ \E t \in ConcThreads : Finish(t)

SpecConc == InitConc /\ [][NextConc]_vars

\* What a call returns when it runs alone on the registry built at
\* construction.
Alone(op, r) ==
    CASE op = "has_access" -> has_access(r.profile, r.marking)
      [] op = "future_has_access" -> future_has_access(r.profile, r.marking)
      [] op = "validate_marking" ->
            Return(validate_marking(PluginMain_init(defs).v, r.marking))
      [] op = "_split_tokens" -> call_split_tokens(PluginMain_init(defs).v, r.marking)

\* C9: however the statements of concurrent calls interleave, the registry
\* equals the one built at construction, a finished call has returned what it
\* returns when run alone on its arguments, and a thread between calls holds
\* nothing of its last call.
C9_CallsIndependent ==
    /\ tokens = PluginMain_init(defs).v
    /\ \A t \in DOMAIN fr :
           /\ fr[t].pc = "done" => fr[t].ret = Alone(fr[t].op, req[t])
           /\ fr[t].pc = "idle" => fr[t] = Idle

\* One thread has finished a tokenization of three segments while the other
\* is inside the loop of its own, having appended one token.
C9_Witness ==
    /\ Returned(1, "_split_tokens")
    /\ fr[1].ret.k = "return"
    /\ Len(fr[1].ret.v) = 3
    /\ fr[2].pc = "loop"
    /\ fr[2].op = "validate_marking"
    /\ Len(fr[2].loc.output_tokens) = 1
    /\ req[1].marking # req[2].marking

-----------------------------------------------------------------------------
(* The authorization refresh: BaseAuthorization.authorization_update *)

\* datetime.timedelta(seconds=24*60*60), in seconds
CacheSeconds == 86400

\* The names the module base_authorization binds: its imports, logger and the
\* class.
ModuleNames ==
    {"datetime", "logging", "pytz", "Group", "model_acccess", "errors", "models",
     "logger", "BaseAuthorization"}

\* Agency.objects.values_list('short_name', flat=True)
Agencies == {"Org A", "Org B"}

\* The user with a profile, and a user without.
Usernames == {"jdoe", "nobody"}

\* Clock readings, in seconds, of datetime.datetime.now().
Times == {0, 1, CacheSeconds + 1, CacheSeconds + 2}

\* Values of Profile.auth_expires before the first call.
Expiries == {0, CacheSeconds + 1}

\* What get_auth_data returns: the dict of its docstring, or a dict whose keys
\* can also be read as attributes; duty_org names an agency or does not.
AuthData ==
    [kind : {"dict", "attrdict"},
     d : [duty_org : Agencies \cup {"Org Z"},
          is_org_steward : BOOLEAN,
          is_apps_mall_steward : BOOLEAN]]

\* get_auth_data of the base class raises; a subclass returns the data.
AuthResults == {Raise("NotImplementedError")} \cup {Return(d) : d \in AuthData}

\* The stored fields of a Profile that authorization_update reads or writes;
\* groups are those of profile.user.
InitProfiles ==
    [auth_expires : Expiries,
     organizations : {{}, {"Org A"}},
     stewarded_organizations : {{}, {"Org A"}},
     groups : {{"USER"}, {"USER", "ORG_STEWARD", "APPS_MALL_STEWARD"}},
     access_control : {None}]

\* logger.error(*args): Logger.error(msg, *args) requires msg.
logger_error(args) == IF Len(args) = 0 THEN Raise("TypeError") ELSE Return(None)

\* model_acccess.get_profile(username): None when there is no such profile.
get_profile(db, username) == IF username \in DOMAIN db THEN db[username] ELSE None

\* updated_auth_data.<name>: a plain dict has no such attribute.
getattr(data, name) ==
    IF data.kind = "dict" THEN Raise("AttributeError") ELSE Return(data.d[name])

\* How a call ends: the store it leaves, what it returns or raises, and what
\* get_auth_data gave it (NoCall when it was not called).
Outcome(db, ret, fetched) == [db |-> db, ret |-> ret, fetched |-> fetched]

\* The branch on is_org_steward: a user who is no steward loses the stewarded
\* organizations and the group, a steward is put in the group.
update_org_steward(profile, is_org_steward) ==
    IF ~is_org_steward
    THEN [profile EXCEPT !.stewarded_organizations = {},
                         !.groups = @ \ {"ORG_STEWARD"}]
    ELSE [profile EXCEPT !.groups = @ \cup {"ORG_STEWARD"}]

\* The branch on is_apps_mall_steward.
update_apps_mall_steward(profile, is_apps_mall_steward) ==
    IF ~is_apps_mall_steward
    THEN [profile EXCEPT !.groups = @ \ {"APPS_MALL_STEWARD"}]
    ELSE [profile EXCEPT !.groups = @ \cup {"APPS_MALL_STEWARD"}]

\* The last statements: access_control and auth_expires are assigned and the
\* profile saved, if the name json is bound in the module.
save_auth(db, username, profile, fetched, now) ==
    IF "json" \notin ModuleNames
    THEN Outcome([db EXCEPT ![username] = profile], Raise("NameError"), fetched)
    ELSE Outcome([db EXCEPT ![username] =
                      [profile EXCEPT !.access_control = fetched.v.d,
                                      !.auth_expires = now + CacheSeconds]],
                 Return(TRUE), fetched)

\* authorization_update from the call of get_auth_data on. The changes of
\* organizations, stewarded_organizations and groups are stored as they are
\* made; fetched is what get_auth_data returned or raised.
refresh(db, username, now, fetched) ==
    IF fetched.k = "raise" THEN Outcome(db, fetched, fetched)
    ELSE LET profile == db[username]
             updated_auth_data == fetched.v
             duty_org == updated_auth_data.d.duty_org
         IN  IF duty_org \notin Agencies
             THEN Outcome(db, Raise("AuthorizationFailure"), fetched)
             ELSE LET p1 == [profile EXCEPT !.organizations = {duty_org}]
                      is_org_steward == getattr(updated_auth_data, "is_org_steward")
                      is_apps_mall_steward ==
                          getattr(updated_auth_data, "is_apps_mall_steward")
                  IN  IF is_org_steward.k = "raise"
                      THEN Outcome([db EXCEPT ![username] = p1], is_org_steward, fetched)
                      ELSE LET p2 == update_org_steward(p1, is_org_steward.v)
                           IN  IF is_apps_mall_steward.k = "raise"
                               THEN Outcome([db EXCEPT ![username] = p2],
                                            is_apps_mall_steward, fetched)
                               ELSE save_auth(db, username,
                                        update_apps_mall_steward(p2, is_apps_mall_steward.v),
                                        fetched, now)

\* BaseAuthorization.authorization_update at clock reading now; fetched is
\* what get_auth_data gives if the call gets to it.
authorization_update(db, username, now, fetched) ==
    LET profile == get_profile(db, username)
    IN  IF profile = None THEN Outcome(db, Raise("NotFound"), NoCall)
        ELSE IF profile.auth_expires - now > CacheSeconds
        THEN IF logger_error(<<>>).k = "raise"
             THEN Outcome(db, logger_error(<<>>), NoCall)
             ELSE Outcome(db, Raise("AuthorizationFailure"), NoCall)
        ELSE IF now <= profile.auth_expires THEN Outcome(db, Return(TRUE), NoCall)
        ELSE refresh(db, username, now, fetched)

InitAuth ==
    /\ engine = "ready"
    /\ defs = tokens_list
    /\ tokens = PluginMain_init(tokens_list).v
    /\ req = <<>>
    /\ fr = <<>>
    /\ auth \in [db : [{"jdoe"} -> InitProfiles], now : {0}, call : {NoCall}]

\* One call of authorization_update, at the clock reading of the last call or
\* later.
AuthorizationUpdate ==
    /\ \E username \in Usernames, now \in {x \in Times : x >= auth.now},
          fetched \in AuthResults :
           LET r == authorization_update(auth.db, username, now, fetched)
           IN  auth' = [db |-> r.db,
                        now |-> now,
                        call |-> [username |-> username,
                                  now |-> now,
                                  pre |-> get_profile(auth.db, username),
                                  fetched |-> r.fetched,
                                  ret |-> r.ret]]
    /\ UNCHANGED <<engine, defs, tokens, req, fr>>

NextAuth == AuthorizationUpdate

SpecAuth == InitAuth /\ [][NextAuth]_vars

\* C12: a call on a stored profile whose auth_expires is more than 24 hours
\* after now raises AuthorizationFailure; one whose auth_expires is not
\* before now (and at most 24 hours after) returns True without calling
\* get_auth_data and leaves the profile as it was; one whose auth_expires is
\* before now, get_auth_data having returned, raises AuthorizationFailure and
\* leaves the profile as it was if duty_org is no agency, and otherwise returns
\* True with the profile's organizations set to duty_org and auth_expires set
\* to now + 24 hours; and no call returns True with auth_expires more than 24
\* hours after now.
C12_ValidAtMostADay ==
    (auth.call # NoCall /\ auth.call.pre # None) =>
        LET pre == auth.call.pre
            now == auth.call.now
            post == auth.db[auth.call.username]
            ret == auth.call.ret
            fetched == auth.call.fetched
        IN  /\ pre.auth_expires - now > CacheSeconds
                   => ret = Raise("AuthorizationFailure")
            /\ (now <= pre.auth_expires /\ pre.auth_expires - now <= CacheSeconds)
                   => ret = Return(TRUE) /\ fetched = NoCall /\ post = pre
            /\ (pre.auth_expires < now /\ fetched.k = "return")
                   => IF fetched.v.d.duty_org \in Agencies
                      THEN /\ ret = Return(TRUE)
                           /\ post.organizations = {fetched.v.d.duty_org}
                           /\ post.auth_expires = now + CacheSeconds
                      ELSE /\ ret = Raise("AuthorizationFailure")
                           /\ post = pre
            /\ ret = Return(TRUE) => post.auth_expires - now <= CacheSeconds

=============================================================================
